---- MODULE Spec2Model ----
(***************************************************************************)
(* PharmaRAG web client: the conversation store and the chat send pipeline *)
(* of rag_web/src/hooks/useChat.ts, together with the parts of the chat    *)
(* components that call into it (ChatInput, ChatContainer, ContextPanel,   *)
(* ConversationsSidebar).                                                  *)
(*                                                                         *)
(* A state is the React state after a commit.  One action is one event     *)
(* handler, timer callback or promise continuation, followed by the        *)
(* re-render it causes.  Handlers invoked from the UI read the state of    *)
(* the latest render; a timer callback and the continuation of an awaited  *)
(* fetch read the values captured by the render that created them.         *)
(***************************************************************************)
EXTENDS Integers, Sequences, FiniteSets, TLC

VARIABLES
  conversations,          \* useChat: Conversation[]
  currentConversationId,  \* useChat: string
  inputText,              \* useChat: string
  isLoading,              \* useChat: boolean
  contextPanel,           \* useChat: ContextPanelState
  now,                    \* the value Date.now() returns
  requests,               \* /rag/answer fetches awaited by a sendMessage call
  timers,                 \* pending auto-send timeouts of ChatContainer
  suggestedQuestions,     \* ChatContainer: string[]
  created,                \* history: conversations made by createNewConversation
  sent,                   \* history: sendMessage calls that passed their guard
  activeView,             \* HomeContent: 'chat' | 'library'
  selectedDocument,       \* useCorpora: DocumentFile | undefined
  selectedMedicineName,   \* useCorpora: string | undefined
  isDocumentLoading,      \* useCorpora: boolean
  error,                  \* useCorpora: string | null
  documentRequests,       \* /documents fetches awaited by a selectDocument call
  names,                  \* useMedicineNames: string[]
  totalCount,             \* useMedicineNames: number
  namesLoading,           \* useMedicineNames: loading, boolean
  loadingProgress,        \* useMedicineNames: number, kept as a fraction of 100
  isInitialLoad,          \* useMedicineNames: boolean
  namesError,             \* useMedicineNames: error, string | null
  loadMedicineNames,      \* where the loadMedicineNames call of the mount effect is
  searchQuery             \* LibraryView: string

\* state of useCorpora and of the page around it
corporaVars == <<activeView, selectedDocument, selectedMedicineName,
                 isDocumentLoading, error, documentRequests>>

\* state of useMedicineNames and of LibraryView
namesVars == <<names, totalCount, namesLoading, loadingProgress, isInitialLoad,
               namesError, loadMedicineNames, searchQuery>>

libraryVars == <<corporaVars, namesVars>>

vars == <<conversations, currentConversationId, inputText, isLoading,
          contextPanel, now, requests, timers, suggestedQuestions,
          created, sent, libraryVars>>

----------------------------------------------------------------------------
(* Bounds of the model *)

StartClock == 1000
MaxJumps == 1     \* the clock passes the auto-send delay at most this often
MaxTicks == 1     \* single milliseconds observed after the start
MaxConversations == 2   \* length of the conversations list
MaxCreated == 2         \* createNewConversation calls in one run
MaxSent == 2            \* sends started in one run
MaxTimers == 1          \* auto-send timers pending at once
MaxSources == 2
MaxMetadata == 2
MaxNames == 101         \* names in the static snapshot file
MaxDocumentRequests == 2    \* selectDocument calls awaiting their fetch

----------------------------------------------------------------------------
(* Values that may be unset: undefined or null is None, a value v is Some(v) *)

None == <<>>

Some(v) == <<v>>

\* a number of the form (done / of) * 100
Percent(done, of) == [done |-> done, of |-> of]

PercentLeq(p, q) == p.done * q.of <= q.done * p.of

----------------------------------------------------------------------------
(* Strings *)

Min(a, b) == IF a < b THEN a ELSE b

IsSpace(ch) == ch \in {" ", "\t", "\n"}

RECURSIVE TrimStart(_)
TrimStart(s) ==
  IF Len(s) > 0 /\ IsSpace(SubSeq(s, 1, 1))
  THEN TrimStart(SubSeq(s, 2, Len(s)))
  ELSE s

RECURSIVE TrimEnd(_)
TrimEnd(s) ==
  IF Len(s) > 0 /\ IsSpace(SubSeq(s, Len(s), Len(s)))
  THEN TrimEnd(SubSeq(s, 1, Len(s) - 1))
  ELSE s

\* String.prototype.trim
Trim(s) == TrimEnd(TrimStart(s))

\* String.prototype.slice(0, n)
SliceTo(s, n) == SubSeq(s, 1, Min(n, Len(s)))

Digit(d) == SubSeq("0123456789", d + 1, d + 1)

\* Number.prototype.toString for a non-negative integer
RECURSIVE NumberToString(_)
NumberToString(n) ==
  IF n < 10 THEN Digit(n) ELSE NumberToString(n \div 10) \o Digit(n % 10)

----------------------------------------------------------------------------
(* Texts of the program and of its environment *)

WelcomeText == "Hello! I'm your pharmaceutical information assistant. Ask me anything about medications, their uses, side effects, or other pharmaceutical topics."

ErrorText == "Sorry, I encountered an error while processing your request. Please try again."

NewTitle == "New Conversation"

TitleLength == 50

AutoSendDelay == 100

\* the first of the questions of the source; a shuffle of a one-element list
\* has one result
SUGGESTED_QUESTIONS == <<"Czy Zentasta wymaga recepty?">>

getRandomQuestions(count) ==
  SubSeq(SUGGESTED_QUESTIONS, 1, Min(count, Len(SUGGESTED_QUESTIONS)))

LongQuestion == "Jakie sa skutki uboczne metforminy przy dlugotrwalym stosowaniu?"

\* what the user can type into the textarea
TypedTexts == {LongQuestion}

\* what the user can type as a conversation title in the sidebar
TypedTitles == {" Leki  "}

----------------------------------------------------------------------------
(* Conversation store *)

WelcomeMessage == [id |-> "1", text |-> WelcomeText, isUser |-> FALSE]

DefaultConversation ==
  [id |-> "default", title |-> NewTitle, messages |-> <<WelcomeMessage>>,
   metadata |-> [totalMessages |-> 1]]

\* variant: a new conversation counts a welcome message it does not hold
NewConversation_CountsWelcome(t) ==
  [id |-> NumberToString(t), title |-> NewTitle, messages |-> <<>>,
   metadata |-> [totalMessages |-> 1]]

NewConversation(t) ==
  [id |-> NumberToString(t), title |-> NewTitle, messages |-> <<>>,
   metadata |-> [totalMessages |-> 0]]

\* prev.filter(c => c.id !== conversationId)
WithoutId(convs, conversationId) ==
  SelectSeq(convs, LAMBDA c : c.id # conversationId)

ConversationIds(convs) == {convs[i].id : i \in 1..Len(convs)}

\* conversations.find(c => c.id === id)?.messages || []
Messages(convs, id) ==
  LET hits == {i \in 1..Len(convs) : convs[i].id = id}
  IN IF hits = {} THEN <<>>
     ELSE convs[CHOOSE i \in hits : \A j \in hits : i <= j].messages

\* variant: the fallback message replaces the message list
AppendMessage_ReplaceOnFallback(convs, id, message, extra) ==
  [i \in 1..Len(convs) |->
     IF convs[i].id = id
     THEN [convs[i] EXCEPT
             !.messages = IF message.text = ErrorText THEN <<message>>
                          ELSE Append(convs[i].messages, message),
             !.metadata = extra @@ [totalMessages |-> Len(convs[i].messages) + 1]
                                @@ convs[i].metadata]
     ELSE convs[i]]

\* prev.map(c => c.id === id ? {...c, messages: [...c.messages, message],
\*                              metadata: {...c.metadata, totalMessages, ...extra}} : c)
AppendMessage(convs, id, message, extra) ==
  [i \in 1..Len(convs) |->
     IF convs[i].id = id
     THEN [convs[i] EXCEPT
             !.messages = Append(convs[i].messages, message),
             !.metadata = extra @@ [totalMessages |-> Len(convs[i].messages) + 1]
                                @@ convs[i].metadata]
     ELSE convs[i]]

\* updateConversationTitle: prev.map(c => c.id === id ? {...c, title} : c)
SetTitle(convs, id, title) ==
  [i \in 1..Len(convs) |->
     IF convs[i].id = id THEN [convs[i] EXCEPT !.title = title] ELSE convs[i]]

----------------------------------------------------------------------------
(* ChatContainer *)

\* useEffect(() => { if (messages.length === 0) setSuggestedQuestions(...) },
\*           [messages.length]): runs when the rendered length changes
RenderChatContainer(questions) ==
  LET before == Len(Messages(conversations, currentConversationId))
      after == Len(Messages(conversations', currentConversationId'))
  IN suggestedQuestions' =
       IF after # before /\ after = 0 THEN getRandomQuestions(5) ELSE questions

----------------------------------------------------------------------------
(* Initial state: after the mount effects of useChat and ChatContainer *)

Init ==
  /\ conversations = <<DefaultConversation>>
  /\ currentConversationId = "default"
  /\ inputText = ""
  /\ isLoading = FALSE
  /\ contextPanel = [activeTab |-> "sources"]
  /\ now = StartClock
  /\ requests = <<>>
  /\ timers = <<>>
  /\ suggestedQuestions = getRandomQuestions(5)
  /\ created = 0
  /\ sent = 0
  /\ activeView = "chat"
  /\ selectedDocument = None
  /\ selectedMedicineName = None
  /\ isDocumentLoading = FALSE
  /\ error = None
  /\ documentRequests = <<>>
  /\ names = <<>>
  /\ totalCount = 0
  /\ namesLoading = TRUE
  /\ loadingProgress = Percent(0, 1)
  /\ isInitialLoad = TRUE
  /\ namesError = None
  /\ loadMedicineNames = [at |-> "fetch"]
  /\ searchQuery = ""

----------------------------------------------------------------------------
(* The clock *)

\* Time passes between two events: one millisecond, or the delay of a pending
\* auto-send timer.
Tick ==
  /\ \E d \in {1, AutoSendDelay} :
       /\ d = 1 => now - StartClock < MaxTicks
       /\ d = AutoSendDelay =>
            /\ timers # <<>>
            /\ (now - StartClock) \div AutoSendDelay < MaxJumps
       /\ now' = now + d
  /\ UNCHANGED <<conversations, currentConversationId, inputText, isLoading,
                 contextPanel, requests, timers, suggestedQuestions,
                 created, sent>>
  /\ UNCHANGED libraryVars

----------------------------------------------------------------------------
(* Conversation store operations *)

CreateNewConversation ==
  /\ Len(conversations) < MaxConversations /\ created < MaxCreated
  /\ conversations' = Append(conversations, NewConversation(now))
  /\ currentConversationId' = NewConversation(now).id
  /\ inputText' = ""
  /\ created' = created + 1
  /\ RenderChatContainer(suggestedQuestions)
  /\ UNCHANGED <<isLoading, contextPanel, now, requests, timers, sent>>
  /\ UNCHANGED libraryVars

\* variant: the last conversation of the list is dropped, whatever its id
RemainingConversations_DropLast(convs, conversationId) ==
  IF Len(convs) > 1 THEN SubSeq(convs, 1, Len(convs) - 1)
  ELSE WithoutId(convs, conversationId)

\* the conversations deleteConversation(id) leaves in the list
RemainingConversations(convs, conversationId) == WithoutId(convs, conversationId)

DeleteConversation(conversationId) ==
  LET remainingConversations ==
        RemainingConversations(conversations, conversationId)
      wasCurrent == currentConversationId = conversationId
      createsNew == wasCurrent /\ Len(remainingConversations) = 0
  IN /\ createsNew => created < MaxCreated
     /\ created' = IF createsNew THEN created + 1 ELSE created
     /\ conversations' =
          IF createsNew
          THEN Append(remainingConversations, NewConversation(now))
          ELSE remainingConversations
     /\ currentConversationId' =
          IF ~wasCurrent THEN currentConversationId
          ELSE IF Len(remainingConversations) > 0
               THEN remainingConversations[1].id
               ELSE NewConversation(now).id
     /\ inputText' = IF createsNew THEN "" ELSE inputText
     /\ RenderChatContainer(suggestedQuestions)
     /\ UNCHANGED <<isLoading, contextPanel, now, requests, timers, sent>>
     /\ UNCHANGED libraryVars

\* ConversationsSidebar: onSelect of a listed conversation
SelectConversation(id) ==
  /\ id # currentConversationId
  /\ currentConversationId' = id
  /\ UNCHANGED <<conversations, inputText, isLoading, contextPanel, now,
                 requests, timers, created, sent>>
  /\ RenderChatContainer(suggestedQuestions)
  /\ UNCHANGED libraryVars

\* an id no conversation of a run carries
AbsentId == "absent"

\* the setCurrentConversationId that useChat returns, called with any id
SetCurrentConversationId(id) ==
  /\ id # currentConversationId
  /\ currentConversationId' = id
  /\ UNCHANGED <<conversations, inputText, isLoading, contextPanel, now,
                 requests, timers, created, sent>>
  /\ RenderChatContainer(suggestedQuestions)
  /\ UNCHANGED libraryVars

\* ConversationItem.handleTitleSubmit followed by updateConversationTitle
RenameConversation(id, editTitle) ==
  /\ Trim(editTitle) # ""
  /\ conversations' = SetTitle(conversations, id, Trim(editTitle))
  /\ conversations' # conversations
  /\ UNCHANGED <<currentConversationId, inputText, isLoading, contextPanel,
                 now, requests, timers, suggestedQuestions, created, sent>>
  /\ UNCHANGED libraryVars

----------------------------------------------------------------------------
(* Chat send pipeline *)

\* what a sendMessage closure reads from the render that created it
Closure(text) ==
  [inputText |-> text,
   isLoading |-> isLoading,
   currentConversationId |-> currentConversationId,
   messages |-> Messages(conversations, currentConversationId)]

\* if (!inputText.trim() || isLoading || !currentConversationId) return;
SendGuard(cl) ==
  /\ Trim(cl.inputText) # ""
  /\ ~cl.isLoading
  /\ cl.currentConversationId # ""

UserMessage(text, t) ==
  [id |-> NumberToString(t), text |-> text, isUser |-> TRUE]

\* if (messages.length === 1) updateConversationTitle(id, inputText.slice(0, 50))
TitleAfterSend(convs, cl) ==
  IF Len(cl.messages) = 1
  THEN SetTitle(convs, cl.currentConversationId,
                SliceTo(cl.inputText, TitleLength))
  ELSE convs

\* sendMessage up to the await of fetch
SendMessage(cl) ==
  IF SendGuard(cl)
  THEN LET userMessage == UserMessage(cl.inputText, now)
       IN /\ conversations' =
               TitleAfterSend(
                 AppendMessage(conversations, cl.currentConversationId,
                               userMessage, [lastQuery |-> cl.inputText]),
                 cl)
          /\ inputText' = ""
          /\ isLoading' = TRUE
          /\ requests' = Append(requests,
               [currentConversationId |-> cl.currentConversationId,
                inputText |-> cl.inputText,
                userMessage |-> userMessage])
          /\ sent' = sent + 1
  ELSE UNCHANGED <<conversations, inputText, isLoading, requests, sent>>

\* bound on the sends the user starts
MaySend == sent + Len(timers) < MaxSent

\* textarea onChange; the textarea is disabled while isLoading
SetInputText(text) ==
  /\ ~isLoading
  /\ text # inputText
  /\ inputText' = text
  /\ UNCHANGED <<conversations, currentConversationId, isLoading,
                 contextPanel, now, requests, timers, suggestedQuestions,
                 created, sent>>
  /\ UNCHANGED libraryVars

\* ChatInput.handleSubmit, from the Enter key or the send button
HandleSubmit ==
  /\ MaySend
  /\ Trim(inputText) # "" /\ ~isLoading
  /\ SendMessage(Closure(inputText))
  /\ UNCHANGED <<currentConversationId, contextPanel, now, timers, created>>
  /\ RenderChatContainer(suggestedQuestions)
  /\ UNCHANGED libraryVars

\* ChatContainer.handleQuestionClick and the auto-send effect of the render
\* it causes: setTimeout(() => onSend(), 100) with that render's onSend
HandleQuestionClick(question) ==
  /\ MaySend /\ Len(timers) < MaxTimers
  /\ Len(Messages(conversations, currentConversationId)) = 0
  /\ \E i \in 1..Len(suggestedQuestions) : suggestedQuestions[i] = question
  /\ suggestedQuestions' = <<>>
  /\ inputText' = question
  /\ timers' = Append(timers,
       [due |-> now + AutoSendDelay, closure |-> Closure(question)])
  /\ UNCHANGED <<conversations, currentConversationId, isLoading,
                 contextPanel, now, requests, created, sent>>
  /\ UNCHANGED libraryVars

RemoveAt(seq, i) == SubSeq(seq, 1, i - 1) \o SubSeq(seq, i + 1, Len(seq))

\* the auto-send timeout fires and calls the onSend it captured
AutoSend(i) ==
  /\ now >= timers[i].due
  /\ timers' = RemoveAt(timers, i)
  /\ SendMessage(timers[i].closure)
  /\ UNCHANGED <<currentConversationId, contextPanel, now, created>>
  /\ RenderChatContainer(suggestedQuestions)
  /\ UNCHANGED libraryVars

----------------------------------------------------------------------------
(* The backend's answers *)

AnswerText == "Metformina obniza stezenie glukozy [1]."

SourceNames == {"metformina"}

\* per-document metadata records; a field the backend leaves out is absent
MetadataEntries ==
  {[h1 |-> "Metformina", h2 |-> "Skutki uboczne", source |-> "metformina",
    relevance_score |-> 85, chunk_content |-> "Metformina moze powodowac"],
   [h1 |-> "", h2 |-> "Dawkowanie", source |-> "metformina",
    relevance_score |-> 0],
   [h2 |-> "Dawkowanie"]}

SeqsUpTo(S, n) == UNION {[1..k -> S] : k \in 0..n}

\* JSON bodies of a 2xx answer; the last one lacks the sources array
Bodies ==
  {[response |-> AnswerText, sources |-> src, metadata |-> md] :
     src \in SeqsUpTo(SourceNames, MaxSources),
     md \in SeqsUpTo(MetadataEntries, MaxMetadata)}
  \cup {[response |-> AnswerText, sources |-> src] :
          src \in SeqsUpTo(SourceNames, MaxSources)}
  \cup {[response |-> AnswerText]}

\* the answer of the spec's end-to-end scenario, and a body without sources
ScenarioBodies ==
  {[response |-> AnswerText, sources |-> <<"metformina">>,
    metadata |-> <<[h1 |-> "Metformina", h2 |-> "Skutki uboczne",
                    source |-> "metformina", relevance_score |-> 85,
                    chunk_content |-> "Metformina moze powodowac"]>>],
   [response |-> AnswerText]}

\* answer texts with citation markers: in range, zero, out of range, nested
\* brackets, a leading zero, and brackets without digits
CitationTexts ==
  {"Metformina [1] i [2].", "[0][3][2]", "[[01]] [x] [12"}

\* JSON bodies of a 2xx answer whose text cites its sources
CitationBodies ==
  {[response |-> t, sources |-> src] :
     t \in CitationTexts, src \in SeqsUpTo(SourceNames, MaxSources)}

\* how an awaited fetch of /rag/answer settles, for a set of 2xx bodies
OutcomesOf(bodies) ==
  {[kind |-> "ok", data |-> d] : d \in bodies}
  \cup {[kind |-> k, data |-> [response |-> ""]] :
          k \in {"http_error", "network_error", "invalid_json"}}

Outcomes == OutcomesOf(ScenarioBodies)

\* obj.field || fallback, for a string field
StringOr(obj, field, fallback) ==
  IF field \in DOMAIN obj /\ obj[field] # "" THEN obj[field] ELSE fallback

\* obj.field || fallback, for a number field
NumberOr(obj, field, fallback) ==
  IF field \in DOMAIN obj /\ obj[field] # 0 THEN obj[field] ELSE fallback

EmptyObject == [f \in {} |-> f]

\* variant: the metadata array read one place too early
DocMetadata_Shifted(data, index) ==
  IF "metadata" \in DOMAIN data /\ index >= 1 /\ index <= Len(data.metadata)
  THEN data.metadata[index]
  ELSE EmptyObject

\* data.metadata?.[index] || {}, index counted from 0
DocMetadata(data, index) ==
  IF "metadata" \in DOMAIN data /\ index + 1 <= Len(data.metadata)
  THEN data.metadata[index + 1]
  ELSE EmptyObject

TransformSource(source, index, docMetadata) ==
  [id |-> NumberToString(index),
   title |-> StringOr(docMetadata, "h1", source),
   url |-> source,
   type |-> "document",
   metadata |-> [h1 |-> StringOr(docMetadata, "h1", ""),
                 h2 |-> StringOr(docMetadata, "h2", ""),
                 relevance_score |-> NumberOr(docMetadata, "relevance_score", 0),
                 chunk_content |-> StringOr(docMetadata, "chunk_content", "")]]

\* data.sources.map((source, index) => ...)
TransformedSources(data) ==
  [i \in 1..Len(data.sources) |->
     TransformSource(data.sources[i], i - 1, DocMetadata(data, i - 1))]

BotMessage(data, t) ==
  [id |-> NumberToString(t + 1),
   text |-> data.response,
   isUser |-> FALSE,
   sources |-> TransformedSources(data),
   metadata |-> IF "metadata" \in DOMAIN data
                THEN [documentMetadata |-> data.metadata]
                ELSE EmptyObject]

ErrorMessage(t) ==
  [id |-> NumberToString(t + 1), text |-> ErrorText, isUser |-> FALSE]

\* the try block runs to its end: 2xx, a body that parses, sources to map
Succeeds(outcome) ==
  outcome.kind = "ok" /\ "sources" \in DOMAIN outcome.data

\* variant: setIsLoading(false) as the last statement of the try block
IsLoadingAfterSettle_TryOnly(outcome, loading) ==
  IF Succeeds(outcome) THEN FALSE ELSE loading

\* finally { setIsLoading(false) }
IsLoadingAfterSettle(outcome, loading) == FALSE

\* variant: the tab is forced to 'sources' after the try statement
ContextPanelAfterSettle_Always(outcome, panel) ==
  [panel EXCEPT !.activeTab = "sources"]

\* setContextPanel(prev => ({...prev, activeTab: 'sources'})), in the try block
ContextPanelAfterSettle(outcome, panel) ==
  IF Succeeds(outcome) THEN [panel EXCEPT !.activeTab = "sources"] ELSE panel

\* the message the continuation appends: the answer, or the fallback of catch
SettledMessage(outcome, t) ==
  IF Succeeds(outcome) THEN BotMessage(outcome.data, t) ELSE ErrorMessage(t)

\* the continuation of sendMessage after the awaited fetch settles
Settle(i, outcome) ==
  /\ conversations' =
       AppendMessage(conversations, requests[i].currentConversationId,
                     SettledMessage(outcome, now), EmptyObject)
  /\ contextPanel' = ContextPanelAfterSettle(outcome, contextPanel)
  /\ isLoading' = IsLoadingAfterSettle(outcome, isLoading)
  /\ requests' = RemoveAt(requests, i)
  /\ UNCHANGED <<currentConversationId, inputText, now, timers, created, sent>>
  /\ RenderChatContainer(suggestedQuestions)
  /\ UNCHANGED libraryVars

----------------------------------------------------------------------------
(* Context panel *)

\* ContextPanel.handleTabClick: onStateChange({...state, activeTab: tabId})
HandleTabClick(tabId) ==
  /\ tabId # contextPanel.activeTab
  /\ contextPanel' = [contextPanel EXCEPT !.activeTab = tabId]
  /\ UNCHANGED <<conversations, currentConversationId, inputText, isLoading,
                 now, requests, timers, suggestedQuestions, created, sent>>
  /\ UNCHANGED libraryVars

----------------------------------------------------------------------------
(* Medicine names: useMedicineNames and the list of LibraryView *)

BatchSize == 50

\* Math.ceil(a / b) for a >= 0, b > 0
CeilDiv(a, b) == (a + b - 1) \div b

\* the k-th name of the static snapshot file
SnapshotName(k) ==
  IF k = 1 THEN "Paracetamol"
  ELSE IF k = 2 THEN "Aspiryna"
  ELSE "Lek " \o NumberToString(k)

SnapshotNames(n) == [k \in 1..n |-> SnapshotName(k)]

\* the numbers of names the snapshot file may hold
SnapshotLengths == {0, 1, BatchSize, BatchSize + 1, MaxNames}

\* JSON bodies of /medicine_names_minimal.json with the given numbers of
\* names; the last one lacks the names array
NamesBodies(lengths) ==
  {[names |-> SnapshotNames(n), total_count |-> n] : n \in lengths}
  \cup {[total_count |-> 0]}

\* the message of the error the catch block receives
LoadErrorMessage(outcome) ==
  IF outcome.kind = "http_error" THEN "Failed to load medicine names"
  ELSE IF outcome.kind = "network_error" THEN "Failed to fetch"
  ELSE IF outcome.kind = "invalid_json" THEN "Unexpected token"
  ELSE "Cannot read properties of undefined (reading 'length')"

\* variant: the flags are reset at the end of the try block, with no finally
FinishLoading_TryOnly(err) ==
  /\ namesError' = err
  /\ namesLoading' = IF err = None THEN FALSE ELSE namesLoading
  /\ isInitialLoad' = IF err = None THEN FALSE ELSE isInitialLoad
  /\ loadMedicineNames' = [at |-> "done"]

\* setError(null) at the end of the try block, then the finally block
FinishLoading(err) ==
  /\ namesError' = err
  /\ namesLoading' = FALSE
  /\ isInitialLoad' = FALSE
  /\ loadMedicineNames' = [at |-> "done"]

\* loadMedicineNames from the settled fetch to the first timeout, or to its end
LoadSettle(outcome) ==
  /\ loadMedicineNames.at = "fetch"
  /\ IF outcome.kind = "ok"
     THEN /\ totalCount' = outcome.data.total_count
          /\ IF "names" \in DOMAIN outcome.data
             THEN IF CeilDiv(Len(outcome.data.names), BatchSize) = 0
                  THEN FinishLoading(None)
                  ELSE /\ loadMedicineNames' =
                            [at |-> "batch", i |-> 0, data |-> outcome.data]
                       /\ UNCHANGED <<namesError, namesLoading, isInitialLoad>>
             ELSE FinishLoading(Some(LoadErrorMessage(outcome)))
     ELSE /\ FinishLoading(Some(LoadErrorMessage(outcome)))
          /\ UNCHANGED totalCount
  /\ UNCHANGED <<names, loadingProgress, searchQuery>>
  /\ UNCHANGED <<conversations, currentConversationId, inputText, isLoading,
                 contextPanel, now, requests, timers, suggestedQuestions,
                 created, sent, corporaVars>>

\* data.names.slice(i * batchSize, Math.min(i * batchSize + batchSize, length))
Batch(data, i) ==
  SubSeq(data.names, i * BatchSize + 1,
         Min(i * BatchSize + BatchSize, Len(data.names)))

\* variant: the batch replaces the list
NamesAfterBatch_Replace(prevNames, batch) == batch

\* the names list after the batch is added
NamesAfterBatch(prevNames, batch) == prevNames \o batch

\* loadMedicineNames after the timeout of batch i: the batch is added, and
\* after the last batch the function runs to its end
LoadBatch ==
  /\ loadMedicineNames.at = "batch"
  /\ LET data == loadMedicineNames.data
         i == loadMedicineNames.i
         totalBatches == CeilDiv(Len(data.names), BatchSize)
     IN /\ names' = NamesAfterBatch(names, Batch(data, i))
        /\ loadingProgress' = Percent(i + 1, totalBatches)
        /\ IF i + 1 < totalBatches
           THEN /\ loadMedicineNames' = [loadMedicineNames EXCEPT !.i = i + 1]
                /\ UNCHANGED <<namesError, namesLoading, isInitialLoad>>
           ELSE FinishLoading(None)
  /\ UNCHANGED <<totalCount, searchQuery>>
  /\ UNCHANGED <<conversations, currentConversationId, inputText, isLoading,
                 contextPanel, now, requests, timers, suggestedQuestions,
                 created, sent, corporaVars>>

UpperCase == "ABCDEFGHIJKLMNOPQRSTUVWXYZ"

LowerCase == "abcdefghijklmnopqrstuvwxyz"

LowerChar(ch) ==
  LET hits == {k \in 1..Len(UpperCase) : SubSeq(UpperCase, k, k) = ch}
  IN IF hits = {} THEN ch
     ELSE LET k == CHOOSE h \in hits : TRUE IN SubSeq(LowerCase, k, k)

\* String.prototype.toLowerCase
RECURSIVE ToLowerCase(_)
ToLowerCase(str) ==
  IF Len(str) = 0 THEN ""
  ELSE LowerChar(SubSeq(str, 1, 1)) \o ToLowerCase(SubSeq(str, 2, Len(str)))

\* String.prototype.includes
Includes(str, part) ==
  \E k \in 1..(Len(str) - Len(part) + 1) : SubSeq(str, k, k + Len(part) - 1) = part

\* variant: the names are compared with the query as typed
FilteredMedicineNames_CaseSensitive(medicineNames, query) ==
  IF Trim(query) = "" THEN medicineNames
  ELSE SelectSeq(medicineNames, LAMBDA name : Includes(name, query))

\* LibraryView: filteredMedicineNames
FilteredMedicineNames(medicineNames, query) ==
  IF Trim(query) = "" THEN medicineNames
  ELSE SelectSeq(medicineNames,
                 LAMBDA name : Includes(ToLowerCase(name), ToLowerCase(query)))

\* useCorpora: combinedError = namesError || error
CombinedError == IF namesError # None THEN namesError ELSE error

\* page.tsx renders LibraryView, and LibraryView renders its search bar and
\* list rather than its loading or error state
LibraryListShown ==
  /\ activeView = "library"
  /\ selectedMedicineName = None
  /\ ~(isInitialLoad /\ Len(names) = 0)
  /\ CombinedError = None

\* what the user can have in the search box
SearchQueries == {"", "a", "as", "asp"}

\* lengths of snapshots that fit in one batch
ShortSnapshotLengths == {0, 2, 3, 4}

\* queries of any case, of whitespace only and with whitespace inside
FilterQueries ==
  SearchQueries \cup {" ", "  ", "A", "AS", "k", "k ", "E", "Ek", "x"}

\* the search input's onChange: one character typed or deleted
SetSearchQuery(query) ==
  /\ LibraryListShown
  /\ \/ Len(query) = Len(searchQuery) + 1
        /\ SubSeq(query, 1, Len(searchQuery)) = searchQuery
     \/ Len(searchQuery) = Len(query) + 1
        /\ SubSeq(searchQuery, 1, Len(query)) = query
  /\ searchQuery' = query
  /\ UNCHANGED <<names, totalCount, namesLoading, loadingProgress,
                 isInitialLoad, namesError, loadMedicineNames>>
  /\ UNCHANGED <<conversations, currentConversationId, inputText, isLoading,
                 contextPanel, now, requests, timers, suggestedQuestions,
                 created, sent, corporaVars>>

----------------------------------------------------------------------------
(* Documents: useCorpora, the page around it and DocumentViewer *)

DocumentErrorText == "Failed to load document"

\* JSON bodies of a 2xx answer of /documents/<name>; content is optional
DocumentBodies(medicineName) ==
  {[name |-> medicineName, filename |-> medicineName \o ".md",
    content |-> "# " \o medicineName],
   [name |-> medicineName, filename |-> medicineName \o ".md",
    h1 |-> medicineName]}

\* how the awaited fetch of a selectDocument call settles
DocumentOutcomes(request) == OutcomesOf(DocumentBodies(request.medicineName))

\* page.tsx mounts LibraryView, whose searchQuery state starts empty
LibraryViewMounted(view, medicineName) ==
  view = "library" /\ medicineName = None

RenderLibraryView ==
  searchQuery' =
    IF LibraryViewMounted(activeView, selectedMedicineName)
       /\ LibraryViewMounted(activeView', selectedMedicineName')
    THEN searchQuery
    ELSE ""

\* selectDocument up to the await of fetch; thenLibrary tells whether the
\* caller awaits the call and sets the view to 'library' afterwards
SelectDocument(medicineName, thenLibrary) ==
  /\ Len(documentRequests) < MaxDocumentRequests
  /\ selectedMedicineName' = Some(medicineName)
  /\ isDocumentLoading' = TRUE
  /\ error' = None
  /\ documentRequests' = Append(documentRequests,
       [medicineName |-> medicineName, thenLibrary |-> thenLibrary])
  /\ UNCHANGED selectedDocument

\* variant: the response is merged into the document held before
DocumentAfterSettle_Merged(outcome, document) ==
  IF outcome.kind = "ok"
  THEN IF document = None THEN Some(outcome.data)
       ELSE Some(outcome.data @@ document[1])
  ELSE document

\* setSelectedDocument(document), in the try block
DocumentAfterSettle(outcome, document) ==
  IF outcome.kind = "ok" THEN Some(outcome.data) ELSE document

\* setError('Failed to load document'), in the catch block
ErrorAfterSettle(outcome, err) ==
  IF outcome.kind = "ok" THEN err ELSE Some(DocumentErrorText)

\* the continuation of selectDocument after the awaited fetch settles, and of
\* handleDocumentSelect after the awaited selectDocument
DocumentSettle(i, outcome) ==
  /\ selectedDocument' = DocumentAfterSettle(outcome, selectedDocument)
  /\ error' = ErrorAfterSettle(outcome, error)
  /\ isDocumentLoading' = FALSE
  /\ activeView' = IF documentRequests[i].thenLibrary THEN "library"
                   ELSE activeView
  /\ documentRequests' = RemoveAt(documentRequests, i)
  /\ UNCHANGED selectedMedicineName
  /\ RenderLibraryView
  /\ UNCHANGED <<names, totalCount, namesLoading, loadingProgress,
                 isInitialLoad, namesError, loadMedicineNames>>
  /\ UNCHANGED <<conversations, currentConversationId, inputText, isLoading,
                 contextPanel, now, requests, timers, suggestedQuestions,
                 created, sent>>

\* the names of the list the user clicks
ClickedNames == {SnapshotName(1)}

\* LibraryView.handleMedicineClick and handleDocumentSelect of the page
HandleDocumentSelect(medicineName) ==
  /\ LibraryListShown
  /\ \E k \in 1..Len(FilteredMedicineNames(names, searchQuery)) :
       FilteredMedicineNames(names, searchQuery)[k] = medicineName
  /\ SelectDocument(medicineName, TRUE)
  /\ UNCHANGED activeView
  /\ RenderLibraryView
  /\ UNCHANGED <<names, totalCount, namesLoading, loadingProgress,
                 isInitialLoad, namesError, loadMedicineNames>>
  /\ UNCHANGED <<conversations, currentConversationId, inputText, isLoading,
                 contextPanel, now, requests, timers, suggestedQuestions,
                 created, sent>>

\* the selection state clearSelection leaves
ClearedSelection_KeepError(err) ==
  [selectedDocument |-> None, selectedMedicineName |-> None,
   isDocumentLoading |-> FALSE, error |-> err]

ClearedSelection(err) ==
  [selectedDocument |-> None, selectedMedicineName |-> None,
   isDocumentLoading |-> FALSE, error |-> None]

\* clearSelection of useCorpora, which DocumentViewer calls on 'back'
ClearSelection ==
  /\ selectedDocument' = ClearedSelection(error).selectedDocument
  /\ selectedMedicineName' = ClearedSelection(error).selectedMedicineName
  /\ isDocumentLoading' = ClearedSelection(error).isDocumentLoading
  /\ error' = ClearedSelection(error).error
  /\ UNCHANGED <<activeView, documentRequests>>
  /\ RenderLibraryView
  /\ UNCHANGED <<names, totalCount, namesLoading, loadingProgress,
                 isInitialLoad, namesError, loadMedicineNames>>
  /\ UNCHANGED <<conversations, currentConversationId, inputText, isLoading,
                 contextPanel, now, requests, timers, suggestedQuestions,
                 created, sent>>

\* variant: a switch of the tab also drops the selected name
SetActiveView_DropsName(view) ==
  /\ view # activeView
  /\ activeView' = view
  /\ selectedMedicineName' = None
  /\ UNCHANGED <<selectedDocument, isDocumentLoading, error, documentRequests>>
  /\ RenderLibraryView
  /\ UNCHANGED <<names, totalCount, namesLoading, loadingProgress,
                 isInitialLoad, namesError, loadMedicineNames>>
  /\ UNCHANGED <<conversations, currentConversationId, inputText, isLoading,
                 contextPanel, now, requests, timers, suggestedQuestions,
                 created, sent>>

\* setActiveView(view) with nothing else of the page changed
SetActiveView(view) ==
  /\ view # activeView
  /\ activeView' = view
  /\ UNCHANGED <<selectedDocument, selectedMedicineName, isDocumentLoading,
                 error, documentRequests>>
  /\ RenderLibraryView
  /\ UNCHANGED <<names, totalCount, namesLoading, loadingProgress,
                 isInitialLoad, namesError, loadMedicineNames>>
  /\ UNCHANGED <<conversations, currentConversationId, inputText, isLoading,
                 contextPanel, now, requests, timers, suggestedQuestions,
                 created, sent>>

\* Header: the chat tab
HandleChatTabClick == SetActiveView("chat")

\* Header: the library tab
HandleLibraryTabClick == SetActiveView("library")

\* what DocumentViewer renders
DocumentViewer(document, medicineName, documentLoading) ==
  IF medicineName = None THEN [shows |-> "placeholder"]
  ELSE IF documentLoading THEN [shows |-> "loading", name |-> medicineName[1]]
  ELSE IF document = None THEN [shows |-> "error", name |-> medicineName[1]]
  ELSE [shows |-> "document", name |-> document[1].name]

----------------------------------------------------------------------------
(* Sources of the current message: citation chips and the context panel *)

\* array[index] of JavaScript, index counted from 0; undefined outside
ElementAt(array, index) ==
  IF index >= 0 /\ index < Len(array) THEN Some(array[index + 1]) ELSE None

IsDigit(ch) == \E d \in 0..9 : Digit(d) = ch

\* String.prototype.charAt, positions counted from 1: "" outside the string
CharAt(str, k) == IF k \in 1..Len(str) THEN SubSeq(str, k, k) ELSE ""

\* the number of digits of str from position k on
RECURSIVE DigitRun(_, _)
DigitRun(str, k) ==
  IF IsDigit(CharAt(str, k)) THEN 1 + DigitRun(str, k + 1) ELSE 0

\* the length of the match of /\[\d+\]/ that starts at position k of str, or 0
MatchAt(str, k) ==
  IF CharAt(str, k) = "["
  THEN LET run == DigitRun(str, k + 1)
       IN IF run > 0 /\ CharAt(str, k + 1 + run) = "]"
          THEN run + 2
          ELSE 0
  ELSE 0

\* text.split(/(\[\d+\])/): the texts between the matches and the matches
RECURSIVE SplitCitations(_)
SplitCitations(text) ==
  LET starts == {k \in 1..Len(text) : MatchAt(text, k) > 0}
  IN IF starts = {} THEN <<text>>
     ELSE LET k == CHOOSE a \in starts : \A b \in starts : a <= b
              n == MatchAt(text, k)
              rest == IF k + n > Len(text) THEN ""
                      ELSE SubSeq(text, k + n, Len(text))
          IN <<IF k = 1 THEN "" ELSE SubSeq(text, 1, k - 1),
               SubSeq(text, k, k + n - 1)>>
             \o SplitCitations(rest)

\* parseInt of a string of digits
RECURSIVE ParseInt(_)
ParseInt(digits) ==
  IF Len(digits) = 0 THEN 0
  ELSE 10 * ParseInt(SubSeq(digits, 1, Len(digits) - 1))
       + (CHOOSE d \in 0..9 : Digit(d) = SubSeq(digits, Len(digits), Len(digits)))

\* variant: the citation number used as the index
CitationSourceIndex_NoOffset(digits) == ParseInt(digits)

\* parseInt(citationMatch[1]) - 1
CitationSourceIndex(digits) == ParseInt(digits) - 1

\* part.match(/\[(\d+)\]/): the digits of the first match in part, if any
CitationMatch(part) ==
  LET starts == {k \in 1..Len(part) : MatchAt(part, k) > 0}
  IN IF starts = {} THEN None
     ELSE LET k == CHOOSE a \in starts : \A b \in starts : a <= b
          IN Some(SubSeq(part, k + 1, k + MatchAt(part, k) - 2))

\* one element of the rendering: a button bound to a source, or a span
RenderPart(part, sources) ==
  LET citationMatch == CitationMatch(part)
      source == IF citationMatch = None THEN None
                ELSE ElementAt(sources, CitationSourceIndex(citationMatch[1]))
  IN IF source # None
     THEN [button |-> "[" \o citationMatch[1] \o "]", source |-> source[1]]
     ELSE [span |-> part]

\* Message.renderTextWithCitations
RenderTextWithCitations(text, sources) ==
  IF Len(sources) = 0 THEN <<[span |-> text]>>
  ELSE LET parts == SplitCitations(text)
       IN [k \in 1..Len(parts) |-> RenderPart(parts[k], sources)]

\* message.sources, or no source when the message has none
SourcesOf(message) ==
  IF "sources" \in DOMAIN message THEN message.sources ELSE <<>>

\* page.tsx: currentSources, the sources of the last message
CurrentSources ==
  LET m == Messages(conversations, currentConversationId)
  IN IF Len(m) = 0 THEN <<>> ELSE SourcesOf(m[Len(m)])

\* page.tsx: handleSourceClick
HandleSourceClick(source) ==
  contextPanel' =
    [activeTab |-> "sources", selectedSource |-> source] @@ contextPanel

\* a click on the citation button that is part p of message m of the chat
ClickCitation(m, p) ==
  /\ activeView = "chat"
  /\ LET message == Messages(conversations, currentConversationId)[m]
         rendered == RenderTextWithCitations(message.text, SourcesOf(message))
     IN /\ p \in 1..Len(rendered)
        /\ "button" \in DOMAIN rendered[p]
        /\ HandleSourceClick(rendered[p].source)
  /\ UNCHANGED <<conversations, currentConversationId, inputText, isLoading,
                 now, requests, timers, suggestedQuestions, created, sent>>
  /\ UNCHANGED libraryVars

\* String.prototype.split with a one-character separator
RECURSIVE Split(_, _)
Split(str, separator) ==
  LET hits == {k \in 1..Len(str) : SubSeq(str, k, k) = separator}
  IN IF hits = {} THEN <<str>>
     ELSE LET k == CHOOSE a \in hits : \A b \in hits : a <= b
          IN <<SubSeq(str, 1, k - 1)>>
             \o Split(SubSeq(str, k + 1, Len(str)), separator)

\* String.prototype.replace(search, ''): the first occurrence removed
Remove(str, search) ==
  LET hits == {k \in 1..(Len(str) - Len(search) + 1) :
                 SubSeq(str, k, k + Len(search) - 1) = search}
  IN IF hits = {} THEN str
     ELSE LET k == CHOOSE a \in hits : \A b \in hits : a <= b
          IN SubSeq(str, 1, k - 1) \o SubSeq(str, k + Len(search), Len(str))

\* source.metadata?.h1 || source.metadata?.source?.split('/')[-1]?.replace('.md', '')
SourceMedicineName(source) ==
  IF "h1" \in DOMAIN source.metadata /\ source.metadata.h1 # ""
  THEN Some(source.metadata.h1)
  ELSE IF "source" \in DOMAIN source.metadata
  THEN LET segment == ElementAt(Split(source.metadata.source, "/"), -1)
       IN IF segment = None THEN None ELSE Some(Remove(segment[1], ".md"))
  ELSE None

\* ContextPanel: a click on a source of the sources tab, which stores the
\* source and calls handleSourceInContextPanelClick of the page
HandleSourceInContextPanelClick(source) ==
  LET sourceMedicineName == SourceMedicineName(source)
      stored == [selectedSource |-> source] @@ contextPanel
  IN /\ activeView = "chat"
     /\ contextPanel.activeTab = "sources"
     /\ \E k \in 1..Len(CurrentSources) : CurrentSources[k] = source
     /\ IF sourceMedicineName # None /\ sourceMedicineName # Some("")
        THEN /\ SelectDocument(sourceMedicineName[1], FALSE)
             /\ activeView' = "library"
             /\ contextPanel' =
                  [selectedSource |-> source,
                   chunkToHighlight |->
                     StringOr(source.metadata, "chunk_content", "")]
                  @@ stored
        ELSE /\ contextPanel' = stored
             /\ UNCHANGED corporaVars
     /\ RenderLibraryView
     /\ UNCHANGED <<names, totalCount, namesLoading, loadingProgress,
                    isInitialLoad, namesError, loadMedicineNames>>
     /\ UNCHANGED <<conversations, currentConversationId, inputText,
                    isLoading, now, requests, timers, suggestedQuestions,
                    created, sent>>

----------------------------------------------------------------------------
(* The document body: DocumentViewer.renderContent and highlightText *)

\* String.prototype.startsWith
StartsWith(str, prefix) ==
  Len(prefix) <= Len(str) /\ SubSeq(str, 1, Len(prefix)) = prefix

\* String.prototype.split with a non-empty separator of any length
RECURSIVE SplitBy(_, _)
SplitBy(str, separator) ==
  LET hits == {k \in 1..(Len(str) - Len(separator) + 1) :
                 SubSeq(str, k, k + Len(separator) - 1) = separator}
  IN IF hits = {} THEN <<str>>
     ELSE LET k == CHOOSE a \in hits : \A b \in hits : a <= b
          IN <<SubSeq(str, 1, k - 1)>>
             \o SplitBy(SubSeq(str, k + Len(separator), Len(str)), separator)

\* the chunkToHighlight prop of the viewer: contextPanel.chunkToHighlight
ChunkToHighlight(panel) ==
  IF "chunkToHighlight" \in DOMAIN panel
  THEN Some(panel.chunkToHighlight)
  ELSE None

\* !chunkToHighlight
NoChunk(chunkToHighlight) ==
  chunkToHighlight = None \/ chunkToHighlight = Some("")

\* variant: only the first occurrence is marked
HighlightText_FirstOnly(text, chunkToHighlight) ==
  IF NoChunk(chunkToHighlight) \/ ~Includes(text, chunkToHighlight[1])
  THEN <<[text |-> text]>>
  ELSE LET parts == SplitBy(text, chunkToHighlight[1])
       IN <<[text |-> parts[1]], [mark |-> chunkToHighlight[1]],
            [text |-> SubSeq(text, Len(parts[1]) + Len(chunkToHighlight[1]) + 1,
                             Len(text))]>>

\* DocumentViewer.highlightText: the pieces it renders, in order
HighlightText(text, chunkToHighlight) ==
  IF NoChunk(chunkToHighlight) \/ ~Includes(text, chunkToHighlight[1])
  THEN <<[text |-> text]>>
  ELSE LET parts == SplitBy(text, chunkToHighlight[1])
       IN [k \in 1..(2 * Len(parts) - 1) |->
             IF k % 2 = 1 THEN [text |-> parts[(k + 1) \div 2]]
             ELSE [mark |-> chunkToHighlight[1]]]

\* line.split('|').filter(cell => cell.trim()), each cell trimmed
TableCells(line) ==
  LET cells == Split(line, "|")
  IN [k \in 1..Len(SelectSeq(cells, LAMBDA cell : Trim(cell) # "")) |->
        Trim(SelectSeq(cells, LAMBDA cell : Trim(cell) # "")[k])]

\* the texts renderContent passes to highlightText for one line; no text of
\* the model holds the bullet character of the bullet branch
LineTexts(line) ==
  IF StartsWith(line, "# ") \/ StartsWith(line, "## ")
     \/ StartsWith(line, "### ")
  THEN <<>>
  ELSE IF Includes(line, "|") /\ Includes(line, "---") THEN <<>>
  ELSE IF Includes(line, "|") THEN TableCells(line)
  ELSE IF DigitRun(Trim(line), 1) > 0
          /\ CharAt(Trim(line), DigitRun(Trim(line), 1) + 1) = "."
  THEN <<Trim(SubSeq(Trim(line), DigitRun(Trim(line), 1) + 2,
                     Len(Trim(line))))>>
  ELSE IF Trim(line) = "" THEN <<>>
  ELSE <<line>>

\* the texts renderContent passes to highlightText for a document content
RECURSIVE RenderedTexts(_)
RenderedTexts(lines) ==
  IF Len(lines) = 0 THEN <<>>
  ELSE LineTexts(lines[1]) \o RenderedTexts(SubSeq(lines, 2, Len(lines)))

\* renderContent: what highlightText renders for each text of the content
RenderContent(content, chunkToHighlight) ==
  LET texts == RenderedTexts(Split(content, "\n"))
  IN [k \in 1..Len(texts) |-> HighlightText(texts[k], chunkToHighlight)]

\* excerpts of the answers: verbatim in a line, twice in a line, overlapping
\* with itself, differing in case or whitespace, and absent
Excerpts ==
  {"Metformina", "Metformina moze powodowac", "metformina", "aa",
   "500  mg", "mg", "Ibuprofen"}

\* contents of the documents
Contents ==
  {"# Metformina\nMetformina moze powodowac nudnosci.\n\n1. Metformina raz, Metformina dwa",
   "## Dawkowanie\n| dawka | 500 mg |\n|---|---|\nbaaab aaaa mg",
   "Metformina",
   "  \n2. 500 mg mg\n### mg"}

\* JSON bodies of a 2xx answer whose one source carries an excerpt or none
HighlightBodies ==
  {[response |-> AnswerText, sources |-> <<"metformina">>,
    metadata |-> <<[h1 |-> "Metformina", chunk_content |-> excerpt]>>] :
     excerpt \in Excerpts}
  \cup {[response |-> AnswerText, sources |-> <<"metformina">>,
         metadata |-> <<[h1 |-> "Metformina"]>>]}

\* JSON bodies of a 2xx answer of /documents/<name> with a content
HighlightDocuments(medicineName) ==
  {[name |-> medicineName, filename |-> medicineName \o ".md",
    content |-> content] : content \in Contents}

----------------------------------------------------------------------------

Next ==
  \/ Tick
  \/ CreateNewConversation
  \/ \E id \in ConversationIds(conversations) : DeleteConversation(id)
  \/ \E id \in ConversationIds(conversations) : SelectConversation(id)
  \/ \E id \in ConversationIds(conversations), t \in TypedTitles :
       RenameConversation(id, t)
  \/ \E text \in TypedTexts \cup {""} : SetInputText(text)
  \/ HandleSubmit
  \/ \E q \in {SUGGESTED_QUESTIONS[i] : i \in 1..Len(SUGGESTED_QUESTIONS)} :
       HandleQuestionClick(q)
  \/ \E i \in 1..Len(timers) : AutoSend(i)
  \/ \E i \in 1..Len(requests), outcome \in Outcomes : Settle(i, outcome)
  \/ \E tabId \in {"sources", "history"} : HandleTabClick(tabId)

Spec == Init /\ [][Next]_vars

\* The send pipeline over the conversation store; no title is edited.
NextSend ==
  \/ Tick
  \/ CreateNewConversation
  \/ \E id \in ConversationIds(conversations) : DeleteConversation(id)
  \/ \E id \in ConversationIds(conversations) : SelectConversation(id)
  \/ \E text \in TypedTexts \cup {""} : SetInputText(text)
  \/ HandleSubmit
  \/ \E q \in {SUGGESTED_QUESTIONS[i] : i \in 1..Len(SUGGESTED_QUESTIONS)} :
       HandleQuestionClick(q)
  \/ \E i \in 1..Len(timers) : AutoSend(i)
  \/ \E i \in 1..Len(requests), outcome \in Outcomes : Settle(i, outcome)
  \/ \E tabId \in {"sources", "history"} : HandleTabClick(tabId)

SpecSend == Init /\ [][NextSend]_vars

\* The conversation store under sends; the context panel tab is not switched.
NextStore ==
  \/ Tick
  \/ CreateNewConversation
  \/ \E id \in ConversationIds(conversations) : DeleteConversation(id)
  \/ \E id \in ConversationIds(conversations) : SelectConversation(id)
  \/ \E id \in ConversationIds(conversations), t \in TypedTitles :
       RenameConversation(id, t)
  \/ \E text \in TypedTexts \cup {""} : SetInputText(text)
  \/ HandleSubmit
  \/ \E q \in {SUGGESTED_QUESTIONS[i] : i \in 1..Len(SUGGESTED_QUESTIONS)} :
       HandleQuestionClick(q)
  \/ \E i \in 1..Len(timers) : AutoSend(i)
  \/ \E i \in 1..Len(requests), outcome \in Outcomes : Settle(i, outcome)

SpecStore == Init /\ [][NextStore]_vars

\* The current-conversation pointer: conversations made, deleted and selected
\* by any id, with questions asked in them.
NextPointer ==
  \/ Tick
  \/ CreateNewConversation
  \/ \E id \in ConversationIds(conversations) : DeleteConversation(id)
  \/ \E id \in ConversationIds(conversations) \cup {AbsentId} :
       SetCurrentConversationId(id)
  \/ \E text \in TypedTexts \cup {""} : SetInputText(text)
  \/ HandleSubmit
  \/ \E i \in 1..Len(requests), outcome \in Outcomes : Settle(i, outcome)

SpecPointer == Init /\ [][NextPointer]_vars

\* The library: the names of the snapshot are loaded and searched, and a
\* listed name is opened and closed.
NextNames ==
  \/ \E outcome \in OutcomesOf(NamesBodies(SnapshotLengths)) :
       LoadSettle(outcome)
  \/ LoadBatch
  \/ HandleChatTabClick
  \/ HandleLibraryTabClick
  \/ \E query \in SearchQueries : SetSearchQuery(query)
  \/ \E medicineName \in ClickedNames : HandleDocumentSelect(medicineName)
  \/ ClearSelection
  \/ \E i \in 1..Len(documentRequests) :
       \E outcome \in DocumentOutcomes(documentRequests[i]) :
         DocumentSettle(i, outcome)

SpecNames == Init /\ [][NextNames]_vars

\* The search box of the library over the names of short snapshots.
NextSearch ==
  \/ \E outcome \in OutcomesOf(NamesBodies(ShortSnapshotLengths)) :
       LoadSettle(outcome)
  \/ LoadBatch
  \/ HandleChatTabClick
  \/ HandleLibraryTabClick
  \/ \E query \in FilterQueries : SetSearchQuery(query)
  \/ \E medicineName \in ClickedNames : HandleDocumentSelect(medicineName)
  \/ ClearSelection
  \/ \E i \in 1..Len(documentRequests) :
       \E outcome \in DocumentOutcomes(documentRequests[i]) :
         DocumentSettle(i, outcome)

SpecSearch == Init /\ [][NextSearch]_vars

\* Documents: the first question is answered, and documents are selected
\* from the sources of the answer and from the list of a two-name snapshot.
NextCorpora ==
  \/ \E text \in TypedTexts \cup {""} : SetInputText(text)
  \/ sent = 0 /\ HandleSubmit
  \/ \E i \in 1..Len(requests), outcome \in OutcomesOf(Bodies) :
       Settle(i, outcome)
  \/ \E k \in 1..Len(CurrentSources) :
       HandleSourceInContextPanelClick(CurrentSources[k])
  \/ HandleChatTabClick
  \/ HandleLibraryTabClick
  \/ \E outcome \in OutcomesOf(NamesBodies({2})) : LoadSettle(outcome)
  \/ LoadBatch
  \/ \E medicineName \in ClickedNames : HandleDocumentSelect(medicineName)
  \/ ClearSelection
  \/ \E i \in 1..Len(documentRequests) :
       \E outcome \in DocumentOutcomes(documentRequests[i]) :
         DocumentSettle(i, outcome)

SpecCorpora == Init /\ [][NextCorpora]_vars

\* Citations: the first question is answered by a text that cites its
\* sources, and the citation chips of the chat are clicked.
NextCitations ==
  \/ Tick
  \/ \E text \in TypedTexts \cup {""} : SetInputText(text)
  \/ sent = 0 /\ HandleSubmit
  \/ \E i \in 1..Len(requests), outcome \in OutcomesOf(CitationBodies) :
       Settle(i, outcome)
  \/ \E m \in 1..Len(Messages(conversations, currentConversationId)) :
       \E p \in 1..Len(Messages(conversations, currentConversationId)[m].text) :
         ClickCitation(m, p)
  \/ \E tabId \in {"sources", "history"} : HandleTabClick(tabId)

SpecCitations == Init /\ [][NextCitations]_vars

\* Highlighting: the first question is answered with a source that carries
\* an excerpt, and the source's document is opened from the context panel.
NextHighlight ==
  \/ \E text \in TypedTexts \cup {""} : SetInputText(text)
  \/ sent = 0 /\ HandleSubmit
  \/ \E i \in 1..Len(requests), outcome \in OutcomesOf(HighlightBodies) :
       Settle(i, outcome)
  \/ \E k \in 1..Len(CurrentSources) :
       HandleSourceInContextPanelClick(CurrentSources[k])
  \/ HandleChatTabClick
  \/ HandleLibraryTabClick
  \/ ClearSelection
  \/ \E i \in 1..Len(documentRequests) :
       \E outcome \in OutcomesOf(HighlightDocuments(documentRequests[i].medicineName)) :
         DocumentSettle(i, outcome)

SpecHighlight == Init /\ [][NextHighlight]_vars

\* The initial conversation, with questions typed and answered in turn.
NextDialog ==
  \/ Tick
  \/ \E text \in TypedTexts \cup {""} : SetInputText(text)
  \/ HandleSubmit
  \/ \E i \in 1..Len(requests), outcome \in Outcomes : Settle(i, outcome)
  \/ \E tabId \in {"sources", "history"} : HandleTabClick(tabId)

SpecDialog == Init /\ [][NextDialog]_vars

\* The first question of the initial conversation, answered by any body.
NextAnswer ==
  \/ Tick
  \/ \E text \in TypedTexts \cup {""} : SetInputText(text)
  \/ sent = 0 /\ HandleSubmit
  \/ \E i \in 1..Len(requests), outcome \in OutcomesOf(Bodies) :
       Settle(i, outcome)

SpecAnswer == Init /\ [][NextAnswer]_vars

----------------------------------------------------------------------------
(* Properties *)

IsPrefix(s, t) == Len(s) <= Len(t) /\ SubSeq(t, 1, Len(s)) = s

Last(s) == s[Len(s)]

\* the list entries that carry the id
Entries(convs, id) == {k \in 1..Len(convs) : convs[k].id = id}

MessageLists(convs) == [k \in 1..Len(convs) |-> convs[k].messages]

\* a step in which the awaited fetch of request i settles with the outcome
SettleStep(i, outcome) == Settle(i, outcome)

RequestFailed(outcome) == outcome.kind \in {"http_error", "network_error"}

IsFallback(m) ==
  /\ m.text = ErrorText
  /\ ~m.isUser
  /\ "sources" \notin DOMAIN m

\* C1: whenever the conversations list is non-empty, currentConversationId
\* names exactly one conversation of the list.
ExactlyOneCurrent ==
  conversations # <<>> =>
    Cardinality(Entries(conversations, currentConversationId)) = 1

\* C2: at most one /rag/answer request is in flight at any time.
AtMostOneRequestInFlight == Len(requests) <= 1

\* C3: when the request of a send settles, with any outcome and whatever
\* happened to its conversation meanwhile, isLoading is false afterwards.
SettleReturnsToIdle ==
  [][Len(requests') < Len(requests) => isLoading' = FALSE]_vars

\* C3 witness: a send whose conversation is no longer listed has settled and
\* the pipeline is idle.
SettledIdleWitness ==
  /\ sent > 0 /\ requests = <<>> /\ timers = <<>>
  /\ ~isLoading
  /\ \A k \in 1..Len(conversations) :
       \A j \in 1..Len(conversations[k].messages) :
         ~conversations[k].messages[j].isUser

\* the list entries of the conversation a request was invoked on: they carry
\* its id and hold its user message
Target(convs, request) ==
  {k \in Entries(convs, request.currentConversationId) :
     \E j \in 1..Len(convs[k].messages) :
       convs[k].messages[j] = request.userMessage}

\* C4: a send on a conversation that still exists when its request succeeds
\* ends with the user message and then the assistant message as the last two
\* messages of the conversation, the pending input empty, isLoading false
\* and the context panel on the 'sources' tab.
SuccessfulSendEndState ==
  [][\A i \in 1..Len(requests), outcome \in Outcomes :
       (/\ SettleStep(i, outcome)
        /\ Succeeds(outcome)
        /\ Target(conversations, requests[i]) # {})
       =>
       /\ \A k \in Target(conversations, requests[i]) :
            LET before == conversations[k].messages
                after == conversations'[k].messages
            IN /\ Last(before) = requests[i].userMessage
               /\ after = Append(before, Last(after))
               /\ Last(after).text = outcome.data.response
               /\ Last(after).sources = TransformedSources(outcome.data)
       /\ inputText' = ""
       /\ isLoading' = FALSE
       /\ contextPanel'.activeTab = "sources"]_vars

AnswerSourcesFollowBody ==
  [][\A i \in 1..Len(requests), outcome \in OutcomesOf(Bodies) :
       (/\ SettleStep(i, outcome)
        /\ Succeeds(outcome)
        /\ Entries(conversations, requests[i].currentConversationId) # {})
       =>
       \A k \in Entries(conversations, requests[i].currentConversationId) :
         LET msg == Last(conversations'[k].messages)
             s == outcome.data.sources
             hasM == "metadata" \in DOMAIN outcome.data
             lenM == IF hasM THEN Len(outcome.data.metadata) ELSE 0
         IN /\ Len(msg.sources) = Len(s)
            /\ \A n \in 1..Len(s) :
                 LET src == msg.sources[n]
                     h1 == IF n <= lenM /\ "h1" \in DOMAIN outcome.data.metadata[n]
                           THEN outcome.data.metadata[n].h1 ELSE ""
                 IN /\ src.id = NumberToString(n - 1)
                    /\ src.url = s[n]
                    /\ src.type = "document"
                    /\ src.title = IF h1 # "" THEN h1 ELSE s[n]
                    /\ n > lenM =>
                         /\ src.metadata.h1 = ""
                         /\ src.metadata.h2 = ""
                         /\ src.metadata.chunk_content = ""
                         /\ src.metadata.relevance_score = 0
            /\ hasM => msg.metadata.documentMetadata = outcome.data.metadata]_vars

\* C6 witness: an assistant message with two sources and one metadata entry
\* that has no h1: the first title falls back to the source, the second
\* source has empty metadata, and the metadata block holds the one entry.
MismatchedAnswerWitness ==
  \E k \in 1..Len(conversations) :
    \E a \in 1..Len(conversations[k].messages) :
      LET x == conversations[k].messages[a]
      IN /\ "sources" \in DOMAIN x /\ "documentMetadata" \in DOMAIN x.metadata
         /\ Len(x.sources) = 2
         /\ Len(x.metadata.documentMetadata) = 1
         /\ x.sources[1].title = x.sources[1].url
         /\ x.sources[1].metadata.h2 # ""
         /\ x.sources[2].metadata.h2 = ""

\* C7: in every step that is not a deleteConversation call each conversation
\* keeps its place and its message list is a prefix of the new one; a
\* deleteConversation call leaves the message lists of the conversations it
\* keeps unchanged.
MessagesOnlyGrow ==
  [][\/ /\ Len(conversations') >= Len(conversations)
        /\ \A k \in 1..Len(conversations) :
             /\ conversations'[k].id = conversations[k].id
             /\ IsPrefix(conversations[k].messages, conversations'[k].messages)
     \/ \E id \in ConversationIds(conversations) :
          /\ DeleteConversation(id)
          /\ IsPrefix(MessageLists(WithoutId(conversations, id)),
                      MessageLists(conversations'))]_vars

\* C7 witness: a renamed conversation holds a question, its fallback reply and
\* a second question, next to another conversation.
GrownConversationWitness ==
  /\ Len(conversations) = 2
  /\ \E k \in 1..Len(conversations) :
       LET m == conversations[k].messages
       IN /\ conversations[k].title = "Leki"
          /\ Len(m) >= 3
          /\ \E j \in 1..(Len(m) - 1) : IsFallback(m[j]) /\ m[j + 1].isUser

\* C8: the message identifiers within one conversation are pairwise distinct.
MessageIdsDistinct ==
  \A k \in 1..Len(conversations) :
    \A a, b \in 1..Len(conversations[k].messages) :
      a # b => conversations[k].messages[a].id # conversations[k].messages[b].id

\* C9: no conversation has an empty message list.
NoEmptyConversation ==
  \A k \in 1..Len(conversations) : Len(conversations[k].messages) >= 1

UserMessages(m) == SelectSeq(m, LAMBDA x : x.isUser)

\* C10: a conversation the user has not renamed is titled 'New Conversation'
\* until its first user message is sent and from then on by the first 50
\* characters of that message.
TitleFollowsFirstQuestion ==
  \A k \in 1..Len(conversations) :
    LET c == conversations[k]
        asked == UserMessages(c.messages)
    IN \/ c.title \in {Trim(t) : t \in TypedTitles}
       \/ c.title = IF asked = <<>> THEN NewTitle
                    ELSE SliceTo(asked[1].text, TitleLength)

\* C11: selecting an id that is not in the conversations list changes neither
\* the current-conversation pointer nor the conversations.
SelectAbsentIsNoOp ==
  [][\A id \in ConversationIds(conversations) \cup {AbsentId} :
       (SetCurrentConversationId(id) /\ id \notin ConversationIds(conversations))
       => UNCHANGED <<currentConversationId, conversations>>]_vars

SelectDocumentSetsThenReplaces ==
  [][/\ Len(documentRequests') > Len(documentRequests) =>
          /\ selectedMedicineName' = Some(Last(documentRequests').medicineName)
          /\ isDocumentLoading' = TRUE
          /\ error' = None
     /\ \A i \in 1..Len(documentRequests) :
          \A outcome \in DocumentOutcomes(documentRequests[i]) :
            (DocumentSettle(i, outcome) /\ outcome.kind = "ok") =>
              /\ selectedDocument' = Some(outcome.data)
              /\ isDocumentLoading' = FALSE]_vars

\* C13 witness: selectDocument was called from the context panel while a
\* document of an earlier selection is held: the viewer is loading and the
\* earlier document is still in place.
ReselectedWitness ==
  /\ selectedDocument # None
  /\ selectedMedicineName # None
  /\ isDocumentLoading
  /\ error = None
  /\ activeView = "library"
  /\ Len(documentRequests) = 1

\* C14: when the request of the one selectDocument call in flight fails, for
\* the name that is still selected, the Document is unset afterwards, an
\* error string is recorded, the loading flag is false and the viewer shows
\* the error state for that name.
FailedSelectShowsError ==
  [][\A i \in 1..Len(documentRequests) :
       \A outcome \in DocumentOutcomes(documentRequests[i]) :
         (/\ DocumentSettle(i, outcome)
          /\ RequestFailed(outcome)
          /\ Len(documentRequests) = 1
          /\ selectedMedicineName = Some(documentRequests[i].medicineName))
         =>
         /\ selectedDocument' = None
         /\ error' # None
         /\ isDocumentLoading' = FALSE
         /\ DocumentViewer(selectedDocument', selectedMedicineName',
                           isDocumentLoading')
            = [shows |-> "error", name |-> documentRequests[i].medicineName]]_vars

\* the selection of useCorpora is empty
SelectionCleared ==
  /\ selectedDocument = None
  /\ selectedMedicineName = None
  /\ isDocumentLoading = FALSE
  /\ error = None

\* C15: clearSelection leaves the selected name and the Document unset, the
\* loading flag false and the error null, and a call in that state changes
\* nothing.
ClearSelectionIsIdempotent ==
  [][ClearSelection =>
       /\ SelectionCleared'
       /\ SelectionCleared =>
            UNCHANGED <<selectedDocument, selectedMedicineName,
                        isDocumentLoading, error>>]_vars

\* C15 witness: the selection is empty while the request of a selectDocument
\* call is still awaited, so clearSelection ran after that call.
ClearedWhileLoadingWitness ==
  /\ SelectionCleared
  /\ Len(documentRequests) = 1

\* the number of a text of the form [digits], or -1 for any other text
MarkerNumber(str) ==
  IF /\ Len(str) >= 3
     /\ SubSeq(str, 1, 1) = "["
     /\ SubSeq(str, Len(str), Len(str)) = "]"
     /\ \A k \in 2..(Len(str) - 1) : IsDigit(SubSeq(str, k, k))
  THEN ParseInt(SubSeq(str, 2, Len(str) - 1))
  ELSE -1

\* the text a rendered part shows
PartText(part) == IF "button" \in DOMAIN part THEN part.button ELSE part.span

RECURSIVE Concat(_)
Concat(strs) ==
  IF Len(strs) = 0 THEN "" ELSE strs[1] \o Concat(SubSeq(strs, 2, Len(strs)))

\* the rendering of a message with sources follows its markers
CitationsFollowMarkers(message) ==
  LET sources == message.sources
      rendered == RenderTextWithCitations(message.text, sources)
  IN /\ Concat([p \in 1..Len(rendered) |-> PartText(rendered[p])]) = message.text
     /\ \A p \in 1..Len(rendered) :
          LET str == PartText(rendered[p])
              n == MarkerNumber(str)
          IN IF n >= 1 /\ n <= Len(sources)
             THEN /\ "button" \in DOMAIN rendered[p]
                  /\ rendered[p].source = sources[n]
             ELSE /\ "span" \in DOMAIN rendered[p]
                  /\ n = -1 =>
                       \A a, b \in 1..Len(str) :
                         a <= b => MarkerNumber(SubSeq(str, a, b)) = -1

\* C16: for every assistant message with a non-empty sources list, each
\* marker [N] with 1 <= N <= len(sources) is a chip bound to sources[N-1],
\* whose click selects that source and sets the tab to 'sources'; each marker
\* with N = 0 or N > len(sources) and the text between markers is literal
\* text; the parts in order make up the text.
CitationsBoundToSources ==
  [][/\ \A k \in 1..Len(conversations') :
          \A m \in 1..Len(conversations'[k].messages) :
            Len(SourcesOf(conversations'[k].messages[m])) > 0 =>
              CitationsFollowMarkers(conversations'[k].messages[m])
     /\ \A m \in 1..Len(Messages(conversations, currentConversationId)) :
          LET message == Messages(conversations, currentConversationId)[m]
              rendered == RenderTextWithCitations(message.text,
                                                  SourcesOf(message))
          IN \A p \in 1..Len(rendered) :
               ClickCitation(m, p) =>
                 /\ contextPanel'.selectedSource =
                      message.sources[MarkerNumber(PartText(rendered[p]))]
                 /\ contextPanel'.activeTab = "sources"]_vars

\* C16 witness: the second citation of an answer with two sources was
\* clicked: the panel holds the second source on the 'sources' tab.
SecondCitationWitness ==
  /\ "selectedSource" \in DOMAIN contextPanel
  /\ contextPanel.selectedSource.id = "1"
  /\ contextPanel.activeTab = "sources"
  /\ Len(CurrentSources) = 2

\* the last segment of a path, with the .md suffix removed
PathName(path) ==
  LET segments == Split(path, "/") IN Remove(Last(segments), ".md")

\* C17: a click on a source in the context panel starts a document fetch for
\* the source's h1, or for the last segment of its path without .md when h1
\* is empty, sets the view to 'library' and stores the source's chunk_content
\* as the excerpt to highlight.
SourceClickOpensDocument ==
  [][\A k \in 1..Len(CurrentSources) :
       HandleSourceInContextPanelClick(CurrentSources[k]) =>
         LET source == CurrentSources[k]
             name == IF source.metadata.h1 # "" THEN source.metadata.h1
                     ELSE PathName(source.url)
         IN /\ Len(documentRequests') = Len(documentRequests) + 1
            /\ Last(documentRequests').medicineName = name
            /\ activeView' = "library"
            /\ "chunkToHighlight" \in DOMAIN contextPanel'
            /\ contextPanel'.chunkToHighlight = source.metadata.chunk_content]_vars

\* C18: while the snapshot loads the names list is the prefix of the
\* snapshot's names made of whole batches, a batch step adds the next 50
\* names or the rest, loadingProgress never decreases, and the step that ends
\* loading without an error leaves the whole snapshot list, loading and
\* isInitialLoad false and, for a non-empty snapshot, loadingProgress 100.
NamesGrowByBatches ==
  [][/\ PercentLeq(loadingProgress, loadingProgress')
     /\ loadMedicineNames.at = "batch" =>
          LET snapshot == loadMedicineNames.data.names
          IN /\ IsPrefix(names, snapshot)
             /\ Len(names) = loadMedicineNames.i * BatchSize
             /\ IsPrefix(names', snapshot)
             /\ LoadBatch =>
                  /\ Len(names') = Min(Len(names) + BatchSize, Len(snapshot))
                  /\ loadMedicineNames'.at = "done" =>
                       /\ names' = snapshot
                       /\ loadingProgress'.done = loadingProgress'.of
     /\ \A outcome \in OutcomesOf(NamesBodies(SnapshotLengths)) :
          (/\ LoadSettle(outcome)
           /\ loadMedicineNames'.at = "done"
           /\ namesError' = None)
          => names' = outcome.data.names
     /\ (loadMedicineNames.at # "done" /\ loadMedicineNames'.at = "done") =>
          /\ namesLoading' = FALSE
          /\ isInitialLoad' = FALSE]_vars

\* C18 witness: the largest snapshot is loaded: all its names are listed,
\* loading has ended and loadingProgress is 100.
SnapshotLoadedWitness ==
  /\ names = SnapshotNames(MaxNames)
  /\ ~namesLoading /\ ~isInitialLoad
  /\ loadingProgress.done = loadingProgress.of
  /\ namesError = None

\* C19: when the request of the names fails, an error message is set, the
\* loading flag becomes false, the names list is unchanged and the loader is
\* at its end; from its end the loader never leaves.
LoadFailureStops ==
  [][/\ \A outcome \in OutcomesOf(NamesBodies(SnapshotLengths)) :
          (LoadSettle(outcome) /\ RequestFailed(outcome)) =>
            /\ namesError' # None
            /\ namesLoading' = FALSE
            /\ names' = names
            /\ loadMedicineNames'.at = "done"
     /\ loadMedicineNames.at = "done" =>
          UNCHANGED <<loadMedicineNames, names, namesError>>]_vars

\* C19 witness: the names request failed: the error is set, loading has
\* stopped and no name is listed.
LoadFailedWitness ==
  /\ namesError # None
  /\ ~namesLoading
  /\ names = <<>>
  /\ loadMedicineNames.at = "done"

\* C20: while the query in the search box is shorter than 3 characters no
\* search is applied: the list shows the names unfiltered.
ShortQueryShowsAll ==
  (LibraryListShown /\ Len(searchQuery) < 3) =>
    FilteredMedicineNames(names, searchQuery) = names

PieceText(piece) == IF "mark" \in DOMAIN piece THEN piece.mark ELSE piece.text

\* the pieces are the text with the non-overlapping occurrences of the
\* excerpt marked, or the text alone when there is no occurrence to mark
MarksOccurrences(text, chunkToHighlight, pieces) ==
  /\ Concat([k \in 1..Len(pieces) |-> PieceText(pieces[k])]) = text
  /\ IF NoChunk(chunkToHighlight) \/ ~Includes(text, chunkToHighlight[1])
     THEN pieces = <<[text |-> text]>>
     ELSE /\ \E k \in 1..Len(pieces) : "mark" \in DOMAIN pieces[k]
          /\ \A k \in 1..Len(pieces) :
               IF "mark" \in DOMAIN pieces[k]
               THEN pieces[k].mark = chunkToHighlight[1]
               ELSE ~Includes(pieces[k].text, chunkToHighlight[1])

\* C22: for every text of the displayed document that is highlighted, and
\* the excerpt held, highlightText marks the non-overlapping verbatim
\* occurrences of the excerpt and keeps the other text, so that its output
\* concatenates to the text; without a verbatim occurrence, or without an
\* excerpt, the text is rendered alone with no mark.
HighlightMarksOccurrences ==
  (selectedDocument # None /\ "content" \in DOMAIN selectedDocument[1]) =>
    LET chunkToHighlight == ChunkToHighlight(contextPanel)
        texts == RenderedTexts(Split(selectedDocument[1].content, "\n"))
        rendered == RenderContent(selectedDocument[1].content, chunkToHighlight)
    IN /\ Len(rendered) = Len(texts)
       /\ \A k \in 1..Len(texts) :
            MarksOccurrences(texts[k], chunkToHighlight, rendered[k])

\* C22 witness: a document whose numbered line holds the excerpt twice is
\* displayed: the line is rendered with two marks.
TwoMarksWitness ==
  /\ selectedDocument # None
  /\ "content" \in DOMAIN selectedDocument[1]
  /\ \E k \in 1..Len(RenderContent(selectedDocument[1].content,
                                   ChunkToHighlight(contextPanel))) :
       LET pieces == RenderContent(selectedDocument[1].content,
                                   ChunkToHighlight(contextPanel))[k]
       IN /\ Len(pieces) = 5
          /\ pieces[2] = [mark |-> "Metformina"]
          /\ pieces[4] = [mark |-> "Metformina"]

\* two characters are the same letter in either case, or the same character
SameIgnoringCase(a, b) ==
  \/ a = b
  \/ \E k \in 1..Len(UpperCase) :
       {a, b} = {SubSeq(UpperCase, k, k), SubSeq(LowerCase, k, k)}

\* the name contains the query, letters compared in either case
ContainsIgnoringCase(name, query) ==
  \E k \in 0..(Len(name) - Len(query)) :
    \A j \in 1..Len(query) :
      SameIgnoringCase(SubSeq(name, k + j, k + j), SubSeq(query, j, j))

\* the query holds a character that is not whitespace
HasVisibleCharacter(query) ==
  \E k \in 1..Len(query) : ~IsSpace(SubSeq(query, k, k))

TotalMessagesIsLength ==
  \A k \in 1..Len(conversations) :
    conversations[k].metadata.totalMessages = Len(conversations[k].messages)

\* C24 witness: a conversation holds the welcome message, a question and its
\* answer and counts three, next to a new conversation that counts none.
CountedConversationsWitness ==
  /\ \E k \in 1..Len(conversations) :
       /\ Len(conversations[k].messages) = 3
       /\ conversations[k].metadata.totalMessages = 3
  /\ \E k \in 1..Len(conversations) :
       /\ Len(conversations[k].messages) = 0
       /\ conversations[k].metadata.totalMessages = 0

\* C25: when the request of a send settles, the reply or the fallback is
\* appended to the conversation the send was invoked on, whichever
\* conversation is current by then, and every other conversation is
\* unchanged; when that conversation is no longer listed, no conversation
\* changes.
ReplyGoesToSendersConversation ==
  [][\A i \in 1..Len(requests), outcome \in Outcomes :
       SettleStep(i, outcome) =>
         /\ Len(conversations') = Len(conversations)
         /\ \A k \in 1..Len(conversations) :
              IF k \in Target(conversations, requests[i])
              THEN LET before == conversations[k].messages
                       after == conversations'[k].messages
                   IN /\ after = Append(before, Last(after))
                      /\ ~Last(after).isUser
              ELSE conversations'[k] = conversations[k]]_vars

\* C26: whenever no document fetch is in flight and a name is selected and
\* the Document is set, the Document is the response to the fetch for the
\* selected name.
DocumentMatchesSelectedName ==
  (/\ documentRequests = <<>>
   /\ selectedDocument # None
   /\ selectedMedicineName # None)
  => selectedDocument[1].name = selectedMedicineName[1]

\* C27: when the one fetch in flight settles after clearSelection, with no
\* selectDocument call since, the Document stays unset and the error stays
\* null, so that the library listing shows no error.
SettleAfterClearChangesNothing ==
  [][\A i \in 1..Len(documentRequests) :
       \A outcome \in DocumentOutcomes(documentRequests[i]) :
         (/\ DocumentSettle(i, outcome)
          /\ SelectionCleared
          /\ Len(documentRequests) = 1)
         =>
         /\ selectedDocument' = None
         /\ error' = None
         /\ CombinedError' = None]_vars

\* C28: isDocumentLoading is true in every state in which a document fetch
\* is in flight and false in every state in which none is.
LoadingFlagFollowsFetches ==
  isDocumentLoading = (Len(documentRequests) > 0)

\* the chunkToHighlight prop the rendered DocumentViewer receives, if any
ViewerChunk ==
  IF activeView = "library" /\ selectedMedicineName # None
  THEN ChunkToHighlight(contextPanel)
  ELSE None

\* C29: a document chosen from the library listing, which is shown after
\* clearSelection, is displayed by a viewer that receives no excerpt.
ListedDocumentHasNoExcerpt ==
  [][\A medicineName \in ClickedNames :
       HandleDocumentSelect(medicineName) => NoChunk(ViewerChunk')]_vars

\* C30: in every conversation every user message is directly followed by
\* exactly one assistant message, except that the last message may be the
\* user message of a send in flight on that conversation.
UserMessagesAnswered ==
  \A k \in 1..Len(conversations) :
    LET m == conversations[k].messages
    IN \A j \in 1..Len(m) :
         m[j].isUser =>
           IF j < Len(m)
           THEN /\ ~m[j + 1].isUser
                /\ j + 2 <= Len(m) => m[j + 2].isUser
           ELSE \E i \in 1..Len(requests) :
                  /\ requests[i].currentConversationId = conversations[k].id
                  /\ requests[i].userMessage = m[j]

====
